---- MODULE Spec2Model ----
(***************************************************************************)
(* A model of the lost-and-found API: the claim-to-item matcher of         *)
(* item/views.py and the item, tag and claim endpoints built on it.        *)
(*                                                                         *)
(* A description is a sequence of one-character strings.  A similarity     *)
(* ratio is the pair <<n, d>> standing for the float n / d (d > 0); two    *)
(* ratios are compared by cross multiplication, which agrees with the      *)
(* comparison of the correctly rounded doubles for the small numerators    *)
(* and denominators that occur.                                            *)
(***************************************************************************)
EXTENDS Integers, Sequences, FiniteSets, TLC

VARIABLES
    m_claim,    \* the claim handed to match_claim_to_item
    m_items,    \* the sequence of items handed to it
    m_result,   \* what it returned
    m_pc,       \* "ready" before the call, "done" after it, "off" when unused
    Item,       \* the Item table: id -> row
    Tag,        \* the Tag table: id -> row
    Claims,     \* the Claims table: id -> row
    nextItemId, \* the next primary key of each table
    nextTagId,
    nextClaimId,
    last,       \* the last request served and the status code of its response
    inflight    \* the claim a POST /claims/ has saved and not yet matched

mvars == <<m_claim, m_items, m_result, m_pc>>
dbvars == <<Item, Tag, Claims, nextItemId, nextTagId, nextClaimId>>
vars == <<m_claim, m_items, m_result, m_pc,
          Item, Tag, Claims, nextItemId, nextTagId, nextClaimId, last, inflight>>

\* ------------------------------------------------------------------------
\* Bounds of the model
\* ------------------------------------------------------------------------

\* longest description enumerated exhaustively for the matcher
MaxLen == 2
\* most items in the sequence handed to the matcher
MaxScan == 2
\* most rows ever inserted into each table
MaxItems == 2
MaxTags == 2
MaxClaims == 1

\* ------------------------------------------------------------------------
\* Strings
\* ------------------------------------------------------------------------

UpperCase == <<"A", "B", "C", "D", "E", "X", "Y">>
LowerCase == <<"a", "b", "c", "d", "e", "x", "y">>

\* str.lower() on one character
lowerChar(c) ==
    IF \E k \in 1..Len(UpperCase) : UpperCase[k] = c
    THEN LowerCase[CHOOSE k \in 1..Len(UpperCase) : UpperCase[k] = c]
    ELSE c

\* str.lower()
lower(s) == [k \in 1..Len(s) |-> lowerChar(s[k])]

\* ------------------------------------------------------------------------
\* difflib.SequenceMatcher(None, a, b).ratio(), for strings shorter than
\* the 200 characters at which the autojunk heuristic starts
\* ------------------------------------------------------------------------

RECURSIVE runLen(_, _, _, _, _, _)
\* length of the common run of a[i..ahi-1] and b[j..bhi-1] starting at i, j
runLen(a, b, i, j, ahi, bhi) ==
    IF i < ahi /\ j < bhi /\ a[i] = b[j]
    THEN 1 + runLen(a, b, i + 1, j + 1, ahi, bhi)
    ELSE 0

\* The longest matching block within a[alo..ahi-1], b[blo..bhi-1] (half-open
\* ranges, 1-based): of the longest blocks the one starting earliest in a,
\* and of those the one starting earliest in b; <<alo, blo, 0>> if none.
find_longest_match(a, b, alo, ahi, blo, bhi) ==
    LET starts == (alo..(ahi - 1)) \X (blo..(bhi - 1))
        size(p) == runLen(a, b, p[1], p[2], ahi, bhi)
        hits == {p \in starts : size(p) > 0}
    IN  IF hits = {}
        THEN <<alo, blo, 0>>
        ELSE LET best == CHOOSE p \in hits :
                            \A q \in hits :
                               \/ size(p) > size(q)
                               \/ /\ size(p) = size(q)
                                  /\ \/ p[1] < q[1]
                                     \/ p[1] = q[1] /\ p[2] <= q[2]
             IN  <<best[1], best[2], size(best)>>

RECURSIVE matches(_, _, _, _, _, _)
\* the total size of the blocks of get_matching_blocks(): the longest block,
\* then the same to its left and to its right
matches(a, b, alo, ahi, blo, bhi) ==
    LET m == find_longest_match(a, b, alo, ahi, blo, bhi)
        i == m[1]
        j == m[2]
        k == m[3]
    IN  IF k = 0
        THEN 0
        ELSE k
             + (IF alo < i /\ blo < j
                THEN matches(a, b, alo, i, blo, j) ELSE 0)
             + (IF i + k < ahi /\ j + k < bhi
                THEN matches(a, b, i + k, ahi, j + k, bhi) ELSE 0)

\* _calculate_ratio: 2.0 * matches / length, and 1.0 for two empty strings
ratio(a, b) ==
    LET length == Len(a) + Len(b)
    IN  IF length > 0
        THEN <<2 * matches(a, b, 1, Len(a) + 1, 1, Len(b) + 1), length>>
        ELSE <<1, 1>>

\* r > s on ratios
Gt(r, s) == r[1] * s[2] > s[1] * r[2]
\* r >= s on ratios
Ge(r, s) == r[1] * s[2] >= s[1] * r[2]

\* the threshold 0.6 of match_claim_to_item
Threshold == <<3, 5>>

\* the absent item (None); stored items have positive ids
None == 0

\* the ratio match_claim_to_item computes for one item
itemRatio(claim, item) == ratio(lower(claim.description), lower(item.description))

\* variants of the acceptance test with one comparison changed
accepts_tie(r, best_ratio) == Ge(r, best_ratio) /\ Gt(r, Threshold)
accepts_any(r, best_ratio) == Gt(r, Threshold)
accepts_at(r, best_ratio) == Gt(r, best_ratio) /\ Ge(r, Threshold)

\* the test `ratio > best_ratio and ratio > 0.6`
accepts(r, best_ratio) == Gt(r, best_ratio) /\ Gt(r, Threshold)

RECURSIVE scan(_, _, _, _, _)
\* the loop of match_claim_to_item from position k on
scan(claim, items, k, best_match, best_ratio) ==
    IF k > Len(items)
    THEN best_match
    ELSE LET r == itemRatio(claim, items[k])
         IN  IF accepts(r, best_ratio)
             THEN scan(claim, items, k + 1, items[k].id, r)
             ELSE scan(claim, items, k + 1, best_match, best_ratio)

\* match_claim_to_item(claim, items): the id of the matched item, or None
match_claim_to_item(claim, items) == scan(claim, items, 1, None, <<0, 1>>)

\* ------------------------------------------------------------------------
\* Users and tables
\* ------------------------------------------------------------------------

\* a request without a valid token
Anonymous == "anonymous"

Users == {"u1", "u2", "admin"}

Requesters == Users \cup {Anonymous}

\* who sends POST /items/: the ordinary users, and requests without a token
Filers == {"u1", "u2", Anonymous}

\* User.is_staff: set by create_superuser, False by default
is_staff(u) == u = "admin"

\* the empty table, payload or dictionary
Empty == << >>

Has(p, f) == f \in DOMAIN p

\* the table without the rows ids
Without(table, ids) == [k \in (DOMAIN table) \ ids |-> table[k]]

\* the row with the attributes of data set (setattr for each validated
\* field, then save)
SetAttrs(row, data) ==
    [f \in DOMAIN row |-> IF f \in DOMAIN data THEN data[f] ELSE row[f]]

\* every order in which a query without ORDER BY can return the rows ids
Orders(ids) ==
    {o \in [1..Cardinality(ids) -> ids] :
        \A j, k \in 1..Cardinality(ids) : o[j] = o[k] => j = k}

\* the response of a handler that stops before it writes anything; data is
\* the list of ids of the rows a list response carries
Refused(code) ==
    [code |-> code, Item |-> Item, Tag |-> Tag, Claims |-> Claims,
     nextItemId |-> nextItemId, nextTagId |-> nextTagId,
     nextClaimId |-> nextClaimId, id |-> None, matched |-> None,
     scanned |-> << >>, data |-> << >>]

\* ------------------------------------------------------------------------
\* ClaimsSerializer
\* ------------------------------------------------------------------------

\* Claims.CLAIM_STATUS_CHOICES
CLAIM_STATUS_CHOICES == {"pending", "approved", "rejected"}

ItemsTitled(t) == {k \in DOMAIN Item : Item[k].title = t}

\* SlugRelatedField(queryset=Item.objects.all(), slug_field='title'):
\* queryset.get(title=...) gives the one item of that title, a validation
\* error if there is none, and raises MultipleObjectsReturned, which nothing
\* catches, if there are several.  The field is required unless the update
\* is partial.
slug_item(p, partial) ==
    IF ~Has(p, "item")
    THEN [res |-> IF partial THEN "skip" ELSE "invalid", id |-> None]
    ELSE LET found == ItemsTitled(p.item)
         IN  IF found = {} THEN [res |-> "invalid", id |-> None]
             ELSE IF Cardinality(found) > 1 THEN [res |-> "raise", id |-> None]
             ELSE [res |-> "ok", id |-> CHOOSE k \in found : TRUE]

\* a status field that takes any string
status_any(p) == TRUE

\* the status field: a ChoiceField over CLAIM_STATUS_CHOICES, not required
\* (the model gives it a default) and writable
status_valid(p) == Has(p, "status") => p.status \in CLAIM_STATUS_CHOICES

\* ClaimsSerializer(data=p, partial=partial).is_valid(): "raise" for the
\* uncaught exception, "invalid" for a validation error, else "ok" with
\* validated_data.  user is read-only and never part of validated_data;
\* description is a TextField(blank=True): any string, not required.
claims_validate(p, partial) ==
    LET it == slug_item(p, partial)
    IN  IF it.res = "raise" THEN [res |-> "raise", data |-> Empty]
        ELSE IF it.res = "invalid" \/ ~status_valid(p)
        THEN [res |-> "invalid", data |-> Empty]
        ELSE [res |-> "ok",
              data |-> (IF it.res = "ok" THEN [item |-> it.id] ELSE Empty)
                       @@ (IF Has(p, "status") THEN [status |-> p.status] ELSE Empty)
                       @@ (IF Has(p, "description")
                           THEN [description |-> p.description] ELSE Empty)]

\* ------------------------------------------------------------------------
\* ClaimsViewSet
\* ------------------------------------------------------------------------

\* a queryset that leaves the refusal to the object permission
claims_queryset_all(u) == DOMAIN Claims

\* ClaimsViewSet.get_queryset: every claim for staff, else the user's own
claims_queryset(u) ==
    IF is_staff(u) THEN DOMAIN Claims
    ELSE {c \in DOMAIN Claims : Claims[c].user = u}

\* IsOwnerOrAdmin.has_object_permission
IsOwnerOrAdmin(u, c) == is_staff(u) \/ Claims[c].user = u

\* check_object_permissions in get_object
object_denied(u, c, perms) == "IsOwnerOrAdmin" \in perms /\ ~IsOwnerOrAdmin(u, c)

\* request.data.get('status') is truthy
status_given(p) == Has(p, "status") /\ p.status # ""

\* permissions that do not look at the payload
claims_permissions_owner(action, p) ==
    IF action \in {"update", "destroy", "partial_update"}
    THEN {"IsAuthenticated", "IsOwnerOrAdmin"}
    ELSE {"IsAuthenticated"}

\* the permission classes get_permissions returns, for an action of the
\* claims endpoints
claims_permissions(action, p) ==
    IF action \in {"update", "destroy"}
    THEN {"IsAuthenticated", "IsOwnerOrAdmin"}
    ELSE IF action = "partial_update"
    THEN IF status_given(p) THEN {"IsAdminUser"}
         ELSE {"IsAuthenticated", "IsOwnerOrAdmin"}
    ELSE {"IsAuthenticated"}

\* a check that lets requests without a token through
check_permissions_open(u, perms) ==
    IF "IsAdminUser" \in perms /\ ~is_staff(u) THEN 403 ELSE 0

\* check_permissions: 0 if the request may proceed, else 401 for a request
\* that did not authenticate and 403 for one that did
check_permissions(u, perms) ==
    IF u = Anonymous THEN 401
    ELSE IF "IsAdminUser" \in perms /\ ~is_staff(u) THEN 403
    ELSE 0

\* the row Claims.objects.create(user=u, **data) inserts
new_claim(u, data) ==
    SetAttrs([user |-> u, item |-> None, status |-> "pending",
              description |-> << >>], data)

\* the items in the order the query returned them, as the matcher reads them
scanned_items(order) ==
    [k \in 1..Len(order) |->
        [id |-> order[k], description |-> Item[order[k]].description]]

\* a perform_create that never overwrites, and one that always does
matched_ignored(claim, matched) == claim.item
matched_always(claim, matched) == matched

\* the claim's item after perform_create: the matched item if there is one
matched_or_kept(claim, matched) ==
    IF matched # None THEN matched ELSE claim.item

\* POST /claims/ by u with payload p, when the items come back in the given
\* order: CreateModelMixin.create and ClaimsViewSet.perform_create
claims_create(u, p, order) ==
    LET denied == check_permissions(u, claims_permissions("create", p))
        v == claims_validate(p, FALSE)
        claim == new_claim(u, v.data)
        matched == match_claim_to_item(claim, scanned_items(order))
    IN  IF denied # 0 THEN Refused(denied)
        ELSE IF v.res = "raise" THEN Refused(500)
        ELSE IF v.res = "invalid" THEN Refused(400)
        ELSE [Refused(201) EXCEPT
                !.Claims = Claims @@
                    (nextClaimId :>
                        [claim EXCEPT !.item = matched_or_kept(claim, matched)]),
                !.nextClaimId = nextClaimId + 1,
                !.id = nextClaimId,
                !.matched = matched,
                !.scanned = scanned_items(order)]

\* PUT (partial = FALSE) or PATCH (partial = TRUE) /claims/{c}/ by u with
\* payload p: UpdateModelMixin.update
claims_update(u, c, p, partial) ==
    LET action == IF partial THEN "partial_update" ELSE "update"
        denied == check_permissions(u, claims_permissions(action, p))
        v == claims_validate(p, partial)
    IN  IF denied # 0 THEN Refused(denied)
        ELSE IF c \notin claims_queryset(u) THEN Refused(404)
        ELSE IF object_denied(u, c, claims_permissions(action, p)) THEN Refused(403)
        ELSE IF v.res = "raise" THEN Refused(500)
        ELSE IF v.res = "invalid" THEN Refused(400)
        ELSE [Refused(200) EXCEPT
                !.Claims = [Claims EXCEPT ![c] = SetAttrs(Claims[c], v.data)],
                !.id = c]

\* DELETE /claims/{c}/ by u: DestroyModelMixin.destroy
claims_destroy(u, c) ==
    LET denied == check_permissions(u, claims_permissions("destroy", Empty))
    IN  IF denied # 0 THEN Refused(denied)
        ELSE IF c \notin claims_queryset(u) THEN Refused(404)
        ELSE IF object_denied(u, c, claims_permissions("destroy", Empty))
        THEN Refused(403)
        ELSE [Refused(204) EXCEPT !.Claims = Without(Claims, {c}), !.id = c]

\* ------------------------------------------------------------------------
\* ItemSerializer, TagSerializer and ItemImageSerializer
\* ------------------------------------------------------------------------

\* Item.status: CharField(max_length=10), without choices
ITEM_STATUS_MAX_LENGTH == 10

\* ItemSerializer(data=p, partial=partial).is_valid().  title is required
\* unless the update is partial; description, status and tags are not; a
\* status is any non-blank string of at most max_length characters.  The
\* other required columns (category, location_last_seen, date_lost) are
\* validated like title and are left out of the rows.
item_valid(p, partial) ==
    /\ partial \/ Has(p, "title")
    /\ Has(p, "status") =>
          p.status # "" /\ Len(p.status) <= ITEM_STATUS_MAX_LENGTH

\* validated data of a serializer that lists user among its fields
item_data_user(p) ==
    [f \in (DOMAIN p) \cap {"title", "description", "status", "user"} |-> p[f]]

\* validated_data without the tags
item_data(p) == [f \in (DOMAIN p) \cap {"title", "description", "status"} |-> p[f]]

\* a lookup by name alone, whoever owns the tag
TagsNamed_any(tagTable, u, n) == {t \in DOMAIN tagTable : tagTable[t].name = n}

\* the tags of user u named n
TagsNamed(tagTable, u, n) ==
    {t \in DOMAIN tagTable : tagTable[t].user = u /\ tagTable[t].name = n}

RECURSIVE get_or_create_tags(_, _, _, _, _, _)
\* ItemSerializer._get_or_create_tags from the k-th name on: for each name,
\* Tag.objects.get_or_create(user=auth_user, name=name) and item.tags.add.
\* get_or_create raises MultipleObjectsReturned when the user has several
\* tags of that name; what was done until then stays done.
get_or_create_tags(u, names, k, tagTable, nextId, assigned) ==
    IF k > Len(names)
    THEN [ok |-> TRUE, Tag |-> tagTable, nextTagId |-> nextId, tags |-> assigned]
    ELSE LET found == TagsNamed(tagTable, u, names[k])
         IN  IF Cardinality(found) > 1
             THEN [ok |-> FALSE, Tag |-> tagTable, nextTagId |-> nextId,
                   tags |-> assigned]
             ELSE IF found = {}
             THEN get_or_create_tags(u, names, k + 1,
                     tagTable @@ (nextId :> [user |-> u, name |-> names[k]]),
                     nextId + 1, assigned \cup {nextId})
             ELSE get_or_create_tags(u, names, k + 1, tagTable, nextId,
                                     assigned \cup found)

\* the row Item.objects.create(user=u, **data) inserts
new_item(u, data) ==
    SetAttrs([user |-> u, title |-> "", description |-> << >>,
              status |-> "lost", tags |-> {}, image |-> ""], data)

\* ------------------------------------------------------------------------
\* ItemViewSet and TagViewSet
\* ------------------------------------------------------------------------

\* a queryset that, like the one of the claims, lets staff see every row
item_queryset_staff(u) ==
    IF is_staff(u) THEN DOMAIN Item ELSE {k \in DOMAIN Item : Item[k].user = u}

\* ItemViewSet.get_queryset, for a request without the tags filter
item_queryset(u) == {k \in DOMAIN Item : Item[k].user = u}

\* BasicItemAPIAttrViewSet.get_queryset on Tag, without assigned_only
tag_queryset(u) == {t \in DOMAIN Tag : Tag[t].user = u}

\* POST /items/ by u with payload p: ItemViewSet.perform_create and
\* ItemSerializer.create
item_create(u, p) ==
    LET denied == check_permissions(u, {"IsAuthenticated"})
        names == IF Has(p, "tags") THEN p.tags ELSE << >>
        got == get_or_create_tags(u, names, 1, Tag, nextTagId, {})
        row == [new_item(u, item_data(p)) EXCEPT !.tags = got.tags]
    IN  IF denied # 0 THEN Refused(denied)
        ELSE IF ~item_valid(p, FALSE) THEN Refused(400)
        ELSE [Refused(IF got.ok THEN 201 ELSE 500) EXCEPT
                !.Item = Item @@ (nextItemId :> row),
                !.nextItemId = nextItemId + 1,
                !.Tag = got.Tag,
                !.nextTagId = got.nextTagId,
                !.id = nextItemId]

\* GET /items/{i}/ by u
item_retrieve(u, i) ==
    LET denied == check_permissions(u, {"IsAuthenticated"})
    IN  IF denied # 0 THEN Refused(denied)
        ELSE IF i \notin item_queryset(u) THEN Refused(404)
        ELSE [Refused(200) EXCEPT !.id = i]

\* PUT (partial = FALSE) or PATCH (partial = TRUE) /items/{i}/ by u with
\* payload p: UpdateModelMixin.update and ItemSerializer.update.  With a tags
\* list the item's tags are cleared and set again before the attributes are
\* written; an exception in between leaves the attributes as they were.
item_update(u, i, p, partial) ==
    LET denied == check_permissions(u, {"IsAuthenticated"})
        got == IF Has(p, "tags")
               THEN get_or_create_tags(u, p.tags, 1, Tag, nextTagId, {})
               ELSE [ok |-> TRUE, Tag |-> Tag, nextTagId |-> nextTagId,
                     tags |-> Item[i].tags]
        retagged == [Item[i] EXCEPT !.tags = got.tags]
    IN  IF denied # 0 THEN Refused(denied)
        ELSE IF i \notin item_queryset(u) THEN Refused(404)
        ELSE IF ~item_valid(p, partial) THEN Refused(400)
        ELSE [Refused(IF got.ok THEN 200 ELSE 500) EXCEPT
                !.Item = [Item EXCEPT ![i] =
                            IF got.ok THEN SetAttrs(retagged, item_data(p))
                            ELSE retagged],
                !.Tag = got.Tag,
                !.nextTagId = got.nextTagId,
                !.id = i]

\* DELETE /items/{i}/ by u.  Claims.item is on_delete=CASCADE: the claims on
\* the item go with it.
item_destroy(u, i) ==
    LET denied == check_permissions(u, {"IsAuthenticated"})
    IN  IF denied # 0 THEN Refused(denied)
        ELSE IF i \notin item_queryset(u) THEN Refused(404)
        ELSE [Refused(204) EXCEPT
                !.Item = Without(Item, {i}),
                !.Claims = Without(Claims, {c \in DOMAIN Claims : Claims[c].item = i}),
                !.id = i]

\* the files the image field accepts
IsImage(f) == f = "photo.jpg"

\* POST /items/{i}/upload-image/ by u with payload p: ItemViewSet.upload_image
\* with ItemImageSerializer, whose image field is required
upload_image(u, i, p) ==
    LET denied == check_permissions(u, {"IsAuthenticated"})
    IN  IF denied # 0 THEN Refused(denied)
        ELSE IF i \notin item_queryset(u) THEN Refused(404)
        ELSE IF ~(Has(p, "image") /\ IsImage(p.image)) THEN Refused(400)
        ELSE [Refused(200) EXCEPT
                !.Item = [Item EXCEPT ![i].image = p.image], !.id = i]

\* PUT (partial = FALSE) or PATCH (partial = TRUE) /tags/{t}/ by u with
\* payload p: TagSerializer, whose name is required unless the update is
\* partial
tag_update(u, t, p, partial) ==
    LET denied == check_permissions(u, {"IsAuthenticated"})
    IN  IF denied # 0 THEN Refused(denied)
        ELSE IF t \notin tag_queryset(u) THEN Refused(404)
        ELSE IF ~(partial \/ Has(p, "name")) THEN Refused(400)
        ELSE [Refused(200) EXCEPT
                !.Tag = [Tag EXCEPT ![t] =
                           SetAttrs(Tag[t], [f \in (DOMAIN p) \cap {"name"} |-> p[f]])],
                !.id = t]

\* DELETE /tags/{t}/ by u; the rows of Item.tags that name the tag go with it
tag_destroy(u, t) ==
    LET denied == check_permissions(u, {"IsAuthenticated"})
    IN  IF denied # 0 THEN Refused(denied)
        ELSE IF t \notin tag_queryset(u) THEN Refused(404)
        ELSE [Refused(204) EXCEPT
                !.Tag = Without(Tag, {t}),
                !.Item = [k \in DOMAIN Item |->
                            [Item[k] EXCEPT !.tags = Item[k].tags \ {t}]],
                !.id = t]

\* a list queryset that forgets the filter on the user
item_list_queryset_all(u, q) ==
    {k \in DOMAIN Item : Has(q, "tags") => Item[k].tags \cap q.tags # {}}

\* ItemViewSet.get_queryset: the user's items, of those that carry one of
\* the tags of the tags parameter when it is sent
item_list_queryset(u, q) ==
    {k \in DOMAIN Item :
        /\ Item[k].user = u
        /\ Has(q, "tags") => Item[k].tags \cap q.tags # {}}

\* BasicItemAPIAttrViewSet.get_queryset on Tag: the user's tags, of those
\* assigned to some item when assigned_only is 1
tag_list_queryset(u, q) ==
    {t \in DOMAIN Tag :
        /\ Tag[t].user = u
        /\ (Has(q, "assigned_only") /\ q.assigned_only = 1)
              => \E k \in DOMAIN Item : t \in Item[k].tags}

\* order_by('-id')
by_id_desc(order) ==
    \A j, k \in 1..Len(order) : j < k => order[j] > order[k]

\* order_by('-name'), for the names "a" and "b"; tags of one name come in
\* any order
by_name_desc(order) ==
    \A j, k \in 1..Len(order) :
        j < k => ~(Tag[order[j]].name = "a" /\ Tag[order[k]].name = "b")

\* GET /items/ by u with the query parameters q, answered with the rows in
\* the given order
item_list(u, q, order) ==
    LET denied == check_permissions(u, {"IsAuthenticated"})
    IN  IF denied # 0 THEN Refused(denied)
        ELSE [Refused(200) EXCEPT !.data = order]

\* GET /tags/ by u with the query parameters q
tag_list(u, q, order) ==
    LET denied == check_permissions(u, {"IsAuthenticated"})
    IN  IF denied # 0 THEN Refused(denied)
        ELSE [Refused(200) EXCEPT !.data = order]

\* GET /claims/ by u
claims_list(u, order) ==
    LET denied == check_permissions(u, claims_permissions("list", Empty))
    IN  IF denied # 0 THEN Refused(denied)
        ELSE [Refused(200) EXCEPT !.data = order]

\* ------------------------------------------------------------------------
\* Serving a request
\* ------------------------------------------------------------------------

\* no request is under observation yet
Unobserved == [op |-> "none"]

\* no POST /claims/ is between its two saves
Idle == [id |-> None]

DbInit ==
    /\ Item = Empty
    /\ Tag = Empty
    /\ Claims = Empty
    /\ nextItemId = 1
    /\ nextTagId = 1
    /\ nextClaimId = 1
    /\ last = Unobserved
    /\ inflight = Idle

\* The tables after the response r to the request (op, u, id, p).  Any one
\* request may be put under observation: last then keeps the request, the
\* response and the tables as they were before it, and the run ends there.
\* A request that would insert more rows than the model's bounds allow is
\* not issued.
Serve(op, u, id, p, r) ==
    /\ r.nextItemId <= MaxItems + 1
    /\ r.nextTagId <= MaxTags + 1
    /\ r.nextClaimId <= MaxClaims + 1
    /\ Item' = r.Item
    /\ Tag' = r.Tag
    /\ Claims' = r.Claims
    /\ nextItemId' = r.nextItemId
    /\ nextTagId' = r.nextTagId
    /\ nextClaimId' = r.nextClaimId
    /\ \/ last' = Unobserved
       \/ last' = [op |-> op, user |-> u, id |-> id, payload |-> p,
                   code |-> r.code, new |-> r.id, matched |-> r.matched,
                   scanned |-> r.scanned, data |-> r.data,
                   Item |-> Item, Tag |-> Tag, Claims |-> Claims]
    /\ UNCHANGED <<mvars, inflight>>

\* ------------------------------------------------------------------------
\* The claims endpoints, over items created and deleted through /items/
\* ------------------------------------------------------------------------

Titles == {"t1", "t2"}

\* the descriptions of the items and claims of the API specifications
Ab == <<"a", "b">>
AB == <<"A", "B">>
Xy == <<"x", "y">>

\* the part of a payload for one key: absent, or one of the values
Part(key, values) == {Empty} \cup {[k \in {key} |-> v] : v \in values}

\* the payloads of POST, PUT and PATCH on the claims endpoints
ClaimPayloads ==
    {a @@ b @@ c @@ d :
        a \in Part("item", Titles),
        b \in Part("status", {"approved", "cancelled", ""}),
        c \in Part("description", {Ab}),
        d \in Part("user", {"u2"})}

\* the payloads of POST /items/ issued beside the claims endpoints
PlainItemPayloads ==
    { [title |-> "t1", description |-> Ab],
      [title |-> "t2", description |-> AB],
      [title |-> "t1", description |-> Xy] }

ItemIds == 1..MaxItems
TagIds == 1..MaxTags
ClaimIds == 1..MaxClaims

ClaimCreate ==
    /\ last = Unobserved
    /\ \E u \in Requesters, p \in ClaimPayloads, order \in Orders(DOMAIN Item) :
           LET r == claims_create(u, p, order)
           IN  Serve("claims.create", u, None, p, r)

ClaimUpdate ==
    /\ last = Unobserved
    /\ \E u \in Requesters, c \in ClaimIds, p \in ClaimPayloads :
           Serve("claims.update", u, c, p, claims_update(u, c, p, FALSE))

ClaimPartialUpdate ==
    /\ last = Unobserved
    /\ \E u \in Requesters, c \in ClaimIds, p \in ClaimPayloads :
           Serve("claims.partial_update", u, c, p, claims_update(u, c, p, TRUE))

ClaimDestroy ==
    /\ last = Unobserved
    /\ \E u \in Requesters, c \in ClaimIds :
           Serve("claims.destroy", u, c, Empty, claims_destroy(u, c))

PlainItemCreate ==
    /\ last = Unobserved
    /\ \E u \in Filers, p \in PlainItemPayloads :
           Serve("items.create", u, None, p, item_create(u, p))

ItemDestroy ==
    /\ last = Unobserved
    /\ \E u \in Requesters, i \in ItemIds :
           Serve("items.destroy", u, i, Empty, item_destroy(u, i))

MatcherOff ==
    /\ m_claim = [description |-> << >>]
    /\ m_items = << >>
    /\ m_result = None
    /\ m_pc = "off"

ClaimsInit == DbInit /\ MatcherOff

ClaimsNext ==
    \/ ClaimCreate
    \/ ClaimUpdate
    \/ ClaimPartialUpdate
    \/ ClaimDestroy
    \/ PlainItemCreate
    \/ ItemDestroy

SpecClaims == ClaimsInit /\ [][ClaimsNext]_vars

\* ------------------------------------------------------------------------
\* The item and tag endpoints
\* ------------------------------------------------------------------------

TagNames == {"a", "b"}

\* the tags lists of the item payloads, each entry a tag name
TagLists == {<< >>, <<"a">>, <<"a", "b">>, <<"a", "a">>}

\* the payloads of POST, PUT and PATCH on the item endpoints
ItemPayloads ==
    {a @@ b @@ c :
        a \in Part("title", {"t1"}),
        b \in Part("status", {"found"}),
        c \in Part("tags", TagLists)}

\* the payloads of PUT and PATCH on the tag endpoints
TagPayloads == Part("name", TagNames)

\* the payloads of POST /items/{id}/upload-image/
ImagePayloads == Part("image", {"photo.jpg", "notes.txt"})

ItemCreate ==
    /\ last = Unobserved
    /\ \E u \in Filers, p \in ItemPayloads :
           Serve("items.create", u, None, p, item_create(u, p))

ItemRetrieve ==
    /\ last = Unobserved
    /\ \E u \in Requesters, i \in ItemIds :
           Serve("items.retrieve", u, i, Empty, item_retrieve(u, i))

ItemUpdate ==
    /\ last = Unobserved
    /\ \E u \in Requesters, i \in ItemIds, p \in ItemPayloads :
           Serve("items.update", u, i, p, item_update(u, i, p, FALSE))

ItemPartialUpdate ==
    /\ last = Unobserved
    /\ \E u \in Requesters, i \in ItemIds, p \in ItemPayloads :
           Serve("items.partial_update", u, i, p, item_update(u, i, p, TRUE))

ItemUploadImage ==
    /\ last = Unobserved
    /\ \E u \in Requesters, i \in ItemIds, p \in ImagePayloads :
           Serve("items.upload_image", u, i, p, upload_image(u, i, p))

TagUpdate ==
    /\ last = Unobserved
    /\ \E u \in Requesters, t \in TagIds, p \in TagPayloads :
           Serve("tags.update", u, t, p, tag_update(u, t, p, FALSE))

TagPartialUpdate ==
    /\ last = Unobserved
    /\ \E u \in Requesters, t \in TagIds, p \in TagPayloads :
           Serve("tags.partial_update", u, t, p, tag_update(u, t, p, TRUE))

TagDestroy ==
    /\ last = Unobserved
    /\ \E u \in Requesters, t \in TagIds :
           Serve("tags.destroy", u, t, Empty, tag_destroy(u, t))

ItemsInit == DbInit /\ MatcherOff

ItemsNext ==
    \/ ItemCreate
    \/ ItemRetrieve
    \/ ItemUpdate
    \/ ItemPartialUpdate
    \/ ItemDestroy
    \/ ItemUploadImage
    \/ TagUpdate
    \/ TagPartialUpdate
    \/ TagDestroy

SpecItems == ItemsInit /\ [][ItemsNext]_vars

\* ------------------------------------------------------------------------
\* The whole API: items, tags and claims together, lists included
\* ------------------------------------------------------------------------

\* the query parameters of GET /items/: tags, a list of tag ids
ItemQueries == {Empty, [tags |-> {1}], [tags |-> {1, 2}]}

\* the query parameters of GET /tags/: assigned_only, 0 or 1
TagQueries == {Empty, [assigned_only |-> 0], [assigned_only |-> 1]}

\* the payloads of POST, PUT and PATCH on the item endpoints
ApiItemPayloads ==
    { [title |-> "t1", description |-> Ab, tags |-> <<"a">>],
      [title |-> "t1", description |-> Ab, status |-> "stolen", user |-> "u2"],
      [status |-> "found", tags |-> << >>] }

\* the payloads of POST, PUT and PATCH on the claims endpoints
ApiClaimPayloads ==
    { [item |-> "t1", description |-> Ab],
      [status |-> "approved"] }

ItemList ==
    /\ last = Unobserved
    /\ \E u \in Requesters, q \in ItemQueries :
       \E order \in {o \in Orders(item_list_queryset(u, q)) : by_id_desc(o)} :
           Serve("items.list", u, None, q, item_list(u, q, order))

TagList ==
    /\ last = Unobserved
    /\ \E u \in Requesters, q \in TagQueries :
       \E order \in {o \in Orders(tag_list_queryset(u, q)) : by_name_desc(o)} :
           Serve("tags.list", u, None, q, tag_list(u, q, order))

ClaimList ==
    /\ last = Unobserved
    /\ \E u \in Requesters :
       \E order \in Orders(claims_queryset(u)) :
           Serve("claims.list", u, None, Empty, claims_list(u, order))

ApiItemCreate ==
    /\ last = Unobserved
    /\ \E u \in Filers, p \in ApiItemPayloads :
           Serve("items.create", u, None, p, item_create(u, p))

ApiItemUpdate ==
    /\ last = Unobserved
    /\ \E u \in Requesters, i \in ItemIds, p \in ApiItemPayloads :
           Serve("items.update", u, i, p, item_update(u, i, p, FALSE))

ApiItemPartialUpdate ==
    /\ last = Unobserved
    /\ \E u \in Requesters, i \in ItemIds, p \in ApiItemPayloads :
           Serve("items.partial_update", u, i, p, item_update(u, i, p, TRUE))

ApiClaimCreate ==
    /\ last = Unobserved
    /\ \E u \in Requesters, p \in ApiClaimPayloads, order \in Orders(DOMAIN Item) :
           Serve("claims.create", u, None, p, claims_create(u, p, order))

ApiClaimUpdate ==
    /\ last = Unobserved
    /\ \E u \in Requesters, c \in ClaimIds, p \in ApiClaimPayloads :
           Serve("claims.update", u, c, p, claims_update(u, c, p, FALSE))

ApiClaimPartialUpdate ==
    /\ last = Unobserved
    /\ \E u \in Requesters, c \in ClaimIds, p \in ApiClaimPayloads :
           Serve("claims.partial_update", u, c, p, claims_update(u, c, p, TRUE))

ApiInit == DbInit /\ MatcherOff

ApiNext ==
    \/ ApiItemCreate
    \/ ApiItemUpdate
    \/ ApiItemPartialUpdate
    \/ ItemDestroy
    \/ ItemList
    \/ TagUpdate
    \/ TagPartialUpdate
    \/ TagDestroy
    \/ TagList
    \/ ApiClaimCreate
    \/ ApiClaimUpdate
    \/ ApiClaimPartialUpdate
    \/ ClaimDestroy
    \/ ClaimList

SpecApi == ApiInit /\ [][ApiNext]_vars

\* ------------------------------------------------------------------------
\* POST /claims/ statement by statement, beside the creation of items
\* ------------------------------------------------------------------------

\* claim = serializer.save(user=self.request.user): the claim is inserted
\* with the item the payload names
ClaimSave ==
    /\ last = Unobserved
    /\ inflight = Idle
    /\ nextClaimId <= MaxClaims
    /\ \E u \in Users, p \in ClaimPayloads :
         LET v == claims_validate(p, FALSE)
             claim == new_claim(u, v.data)
         IN  /\ check_permissions(u, claims_permissions("create", p)) = 0
             /\ v.res = "ok"
             /\ Claims' = Claims @@ (nextClaimId :> claim)
             /\ nextClaimId' = nextClaimId + 1
             /\ inflight' = [id |-> nextClaimId, claim |-> claim]
    /\ UNCHANGED <<mvars, Item, Tag, nextItemId, nextTagId, last>>

\* the rest of perform_create: the items are read, the matcher runs and, if
\* it finds an item, claim.item is set and the claim is saved again
ClaimMatch ==
    /\ inflight # Idle
    /\ \E order \in Orders(DOMAIN Item) :
         LET matched == match_claim_to_item(inflight.claim, scanned_items(order))
             claim == [inflight.claim EXCEPT
                          !.item = matched_or_kept(inflight.claim, matched)]
         IN  Claims' = IF matched # None
                       THEN [Claims EXCEPT ![inflight.id] = claim]
                       ELSE Claims
    /\ inflight' = Idle
    /\ UNCHANGED <<mvars, Item, Tag, nextItemId, nextTagId, nextClaimId, last>>

StepsInit == DbInit /\ MatcherOff

StepsNext ==
    \/ PlainItemCreate
    \/ ClaimSave
    \/ ClaimMatch

SpecSteps == StepsInit /\ [][StepsNext]_vars

\* C19: while a POST to /claims/ is handled, the claim is at no point stored
\* with an item other than the one it ends with: the step that follows the
\* first save, matcher and overwrite included, finds the claim stored with
\* the item it leaves it with.
C19_OverwriteBeforePersist ==
    [][(inflight # Idle /\ inflight' = Idle) =>
          Claims'[inflight.id].item = Claims[inflight.id].item]_vars

\* ------------------------------------------------------------------------
\* Properties of the claims endpoints
\* ------------------------------------------------------------------------

NonStaff(u) == u \in Users /\ ~is_staff(u)

ClaimOps == {"claims.create", "claims.update", "claims.partial_update",
             "claims.destroy"}

\* the observed request addressed a claim that was stored when it arrived
OnStoredClaim == last.id \in DOMAIN last.Claims

\* the items stored before the observed request whose title the payload names
Supplied ==
    IF Has(last.payload, "item")
    THEN {k \in DOMAIN last.Item : last.Item[k].title = last.payload.item}
    ELSE {}

\* the description the payload of the observed request gives a new claim
SuppliedDescription ==
    IF Has(last.payload, "description") THEN last.payload.description ELSE << >>

\* some item stored before the observed request resembles the description d
\* by more than the threshold
SomeItemResembles(d) ==
    \E k \in DOMAIN last.Item :
        Gt(ratio(lower(d), lower(last.Item[k].description)), Threshold)

\* C4: after a successful POST to /claims/, if the matcher finds a match among
\* all the stored items, whoever owns them, the stored claim refers to the
\* matched item, whatever item the payload named.
C4_MatchedItemStored ==
    (last.op = "claims.create" /\ last.code = 201) =>
        LET c == Claims[last.new]
            m == match_claim_to_item([description |-> c.description], last.scanned)
        IN  /\ {last.scanned[k].id : k \in 1..Len(last.scanned)} = DOMAIN last.Item
            /\ \A k \in 1..Len(last.scanned) :
                  last.scanned[k].description
                      = last.Item[last.scanned[k].id].description
            /\ m # None => c.item = m

\* a claim filed on one item and stored on another user's item that matched
C4_Witness ==
    /\ last.op = "claims.create"
    /\ last.code = 201
    /\ last.matched # None
    /\ Supplied # {last.matched}
    /\ Claims[last.new].item = last.matched
    /\ Item[last.matched].user # last.user

\* C5: a POST to /claims/ for which the matcher finds no match (an
\* authenticated request naming exactly one stored item by title, with a
\* valid status if any, whose description resembles no stored item above
\* the threshold) is answered 201, and the stored claim refers to the item
\* named and carries the description supplied.
C5_NoMatchKeepsSupplied ==
    ( /\ last.op = "claims.create"
      /\ last.user # Anonymous
      /\ Cardinality(Supplied) = 1
      /\ Has(last.payload, "status") => last.payload.status \in CLAIM_STATUS_CHOICES
      /\ ~SomeItemResembles(SuppliedDescription) )
    => /\ last.code = 201
       /\ last.new \in DOMAIN Claims
       /\ last.new \notin DOMAIN last.Claims
       /\ {Claims[last.new].item} = Supplied
       /\ Claims[last.new].description = SuppliedDescription

\* a claim with a description of its own that matched none of the items
C5_Witness ==
    /\ last.op = "claims.create"
    /\ last.code = 201
    /\ last.matched = None
    /\ Has(last.payload, "description")
    /\ {Claims[last.new].item} = Supplied

\* C6: no request of a user who is not staff changes the status of a claim
\* that exists before and after it.
C6_StatusOnlyByStaff ==
    (last.op \in ClaimOps /\ ~is_staff(last.user)) =>
        \A c \in (DOMAIN last.Claims) \cap (DOMAIN Claims) :
            Claims[c].status = last.Claims[c].status

\* C7 as stated: a PATCH carrying a (non-empty) status value is answered 403 and changes
\* nothing when a non-staff owner sends it, and is answered 200 and sets the
\* status to the value supplied when a staff user sends it.
C7_AsStated ==
    ( /\ last.op = "claims.partial_update"
      /\ OnStoredClaim
      /\ Has(last.payload, "status")
      /\ last.payload.status # "" )
    => /\ (NonStaff(last.user) /\ last.Claims[last.id].user = last.user)
              => (last.code = 403 /\ Claims = last.Claims)
       /\ is_staff(last.user)
              => (last.code = 200 /\ Claims[last.id].status = last.payload.status)

\* C7, amended: for the staff user the status value is one of the status
\* choices and the payload names no item or exactly one stored item.
C7_PatchStatus ==
    ( /\ last.op = "claims.partial_update"
      /\ OnStoredClaim
      /\ Has(last.payload, "status")
      /\ last.payload.status # "" )
    => /\ (NonStaff(last.user) /\ last.Claims[last.id].user = last.user)
              => (last.code = 403 /\ Claims = last.Claims)
       /\ ( /\ is_staff(last.user)
            /\ last.payload.status \in CLAIM_STATUS_CHOICES
            /\ Has(last.payload, "item") => Cardinality(Supplied) = 1 )
              => (last.code = 200 /\ Claims[last.id].status = last.payload.status)

\* the owner of a pending claim is refused when trying to approve it
C7_Witness ==
    /\ last.op = "claims.partial_update"
    /\ OnStoredClaim
    /\ NonStaff(last.user)
    /\ last.Claims[last.id].user = last.user
    /\ last.Claims[last.id].status = "pending"
    /\ Has(last.payload, "status")
    /\ last.payload.status = "approved"
    /\ last.code = 403
    /\ Claims = last.Claims

\* C17: the status of every stored claim is 'pending', 'approved' or
\* 'rejected', and a create, PUT or PATCH that supplies another value never
\* leaves a claim with that value.
C17_ClaimStatusEnumerated ==
    /\ \A c \in DOMAIN Claims : Claims[c].status \in CLAIM_STATUS_CHOICES
    /\ ( /\ last.op \in {"claims.create", "claims.update", "claims.partial_update"}
         /\ Has(last.payload, "status")
         /\ last.payload.status \notin CLAIM_STATUS_CHOICES )
       => \A c \in DOMAIN Claims : Claims[c].status # last.payload.status

\* a staff user's PUT of the status 'cancelled' on a stored claim, refused
C17_Witness ==
    /\ last.op = "claims.update"
    /\ OnStoredClaim
    /\ is_staff(last.user)
    /\ Cardinality(Supplied) = 1
    /\ Has(last.payload, "status")
    /\ last.payload.status = "cancelled"
    /\ last.code = 400
    /\ Claims = last.Claims

\* C8: every claim created through POST /claims/ is owned by the requester,
\* whatever user the payload names, and starts in status 'pending'.
C8_CreatedOwnedAndPending ==
    (last.op = "claims.create" /\ last.code = 201) =>
        /\ Claims[last.new].user = last.user
        /\ Claims[last.new].status = "pending"

\* C10 as stated: an update or delete of a claim by a non-staff user who does
\* not own it is answered 404 and changes nothing.
C10_AsStated ==
    ( /\ last.op \in {"claims.update", "claims.partial_update", "claims.destroy"}
      /\ OnStoredClaim
      /\ NonStaff(last.user)
      /\ last.Claims[last.id].user # last.user )
    => (last.code = 404 /\ Claims = last.Claims)

\* C10, amended: the answer is 403 instead when the request is a PATCH whose
\* payload carries a non-empty status.
C10_OthersClaim ==
    ( /\ last.op \in {"claims.update", "claims.partial_update", "claims.destroy"}
      /\ OnStoredClaim
      /\ NonStaff(last.user)
      /\ last.Claims[last.id].user # last.user )
    => /\ Claims = last.Claims
       /\ last.code =
            IF /\ last.op = "claims.partial_update"
               /\ Has(last.payload, "status")
               /\ last.payload.status # ""
            THEN 403 ELSE 404

\* a user's attempt to delete another user's claim, which stays stored
C10_Witness ==
    /\ last.op = "claims.destroy"
    /\ OnStoredClaim
    /\ NonStaff(last.user)
    /\ last.Claims[last.id].user # last.user
    /\ last.code = 404
    /\ last.id \in DOMAIN Claims

\* ------------------------------------------------------------------------
\* Properties of the item and tag endpoints
\* ------------------------------------------------------------------------

ItemDetailOps == {"items.retrieve", "items.update", "items.partial_update",
                  "items.destroy", "items.upload_image"}

TagDetailOps == {"tags.update", "tags.partial_update", "tags.destroy"}

\* C9: a retrieve, update, delete or upload-image request on an item by an
\* authenticated user other than its owner, staff included, is answered 404
\* and leaves the item and its tags as they were; so is an update or delete
\* of a tag by a user other than its owner.
C9_OthersItemOrTag ==
    /\ ( /\ last.op \in ItemDetailOps
         /\ last.id \in DOMAIN last.Item
         /\ last.user \in Users
         /\ last.Item[last.id].user # last.user )
       => (last.code = 404 /\ Item = last.Item /\ Tag = last.Tag)
    /\ ( /\ last.op \in TagDetailOps
         /\ last.id \in DOMAIN last.Tag
         /\ last.user \in Users
         /\ last.Tag[last.id].user # last.user )
       => (last.code = 404 /\ Tag = last.Tag /\ Item = last.Item)

\* a staff user's PATCH, with a tags list, of another user's tagged item
C9_Witness ==
    /\ last.op = "items.partial_update"
    /\ last.id \in DOMAIN last.Item
    /\ is_staff(last.user)
    /\ last.Item[last.id].user # last.user
    /\ last.Item[last.id].tags # {}
    /\ Has(last.payload, "tags")
    /\ last.code = 404
    /\ Item = last.Item

\* the tag names of the tags list of the observed request
NamesGiven == {last.payload.tags[k] : k \in 1..Len(last.payload.tags)}

\* the tags of item i are, for each name given, one tag of that name owned
\* by the requester, and no other tag
TaggedAsGiven(i) ==
    /\ \A n \in NamesGiven :
          Cardinality({t \in Item[i].tags : Tag[t].name = n}) = 1
    /\ \A t \in Item[i].tags :
          Tag[t].user = last.user /\ Tag[t].name \in NamesGiven

\* C12: an item created through POST /items/ with a list of tag names is
\* associated with exactly one tag per distinct name, each owned by the
\* requester; a name of which the requester already owns a tag is served by
\* that tag, and no new tag of that name is created.
C12_CreateWithTags ==
    ( /\ last.op = "items.create"
      /\ last.user \in Users
      /\ Has(last.payload, "title")
      /\ Has(last.payload, "tags") )
    => /\ last.new \in (DOMAIN Item) \ (DOMAIN last.Item)
       /\ TaggedAsGiven(last.new)
       /\ \A n \in NamesGiven :
             TagsNamed(last.Tag, last.user, n) # {} =>
                /\ \E t \in TagsNamed(last.Tag, last.user, n) : t \in Item[last.new].tags
                /\ TagsNamed(Tag, last.user, n) = TagsNamed(last.Tag, last.user, n)

\* C13: an update of an item by its owner with a tags list leaves the item
\* with exactly the tags named, and deletes or changes no tag; an update
\* without a tags key leaves the item's tags as they were.
C13_UpdateTags ==
    ( /\ last.op \in {"items.update", "items.partial_update"}
      /\ last.id \in DOMAIN last.Item
      /\ last.Item[last.id].user = last.user
      /\ last.op = "items.update" => Has(last.payload, "title") )
    => IF Has(last.payload, "tags")
       THEN /\ TaggedAsGiven(last.id)
            /\ \A t \in DOMAIN last.Tag : t \in DOMAIN Tag /\ Tag[t] = last.Tag[t]
       ELSE Item[last.id].tags = last.Item[last.id].tags

\* C20: no user owns two distinct tags of the same name.
C20_UniqueTagNames ==
    \A s, t \in DOMAIN Tag :
        (Tag[s].user = Tag[t].user /\ Tag[s].name = Tag[t].name) => s = t

\* C21: every tag associated with an item is a stored tag owned by the
\* owner of that item.
C21_TagOwnerIsItemOwner ==
    \A k \in DOMAIN Item :
        \A t \in Item[k].tags :
            t \in DOMAIN Tag /\ Tag[t].user = Item[k].user

\* an item created with a tag name of which another user owns a tag: the
\* item gets a new tag of its own owner, not the other user's
C21_Witness ==
    /\ last.op = "items.create"
    /\ last.code = 201
    /\ Has(last.payload, "tags")
    /\ \E t \in DOMAIN last.Tag :
          /\ last.Tag[t].user # last.user
          /\ last.Tag[t].name \in NamesGiven
          /\ \E k \in DOMAIN Item : t \in Item[k].tags
    /\ Item[last.new].tags # {}
    /\ Item[last.new].tags \cap DOMAIN last.Tag = {}
    /\ \A t \in Item[last.new].tags : Tag[t].user = last.user

\* ------------------------------------------------------------------------
\* Properties of the whole API
\* ------------------------------------------------------------------------

\* some request is under observation
Observed == last.op # "none"

\* the ids a list response carries
Listed == {last.data[k] : k \in 1..Len(last.data)}

\* C11: no request, on items, tags or claims, of a user who is neither staff
\* nor the owner of a stored claim removes that claim or changes any of its
\* fields.
C11_OnlyOwnerOrStaff ==
    (Observed /\ ~is_staff(last.user)) =>
        \A c \in DOMAIN last.Claims :
            last.Claims[c].user # last.user =>
                (c \in DOMAIN Claims /\ Claims[c] = last.Claims[c])

\* C14: a list on /items/, /tags/ or /claims/ by a non-staff user carries
\* only records of that user, each once, and all of them when the request
\* has no filter parameter; a list on /claims/ by a staff user carries every
\* stored claim.
C14_ListsOwnRecords ==
    (Observed /\ last.user \in Users) =>
        /\ last.op \in {"items.list", "tags.list", "claims.list"} =>
              (last.code = 200 /\ Len(last.data) = Cardinality(Listed))
        /\ (last.op = "items.list" /\ NonStaff(last.user)) =>
              LET own == {k \in DOMAIN Item : Item[k].user = last.user}
              IN  Listed \subseteq own /\ (last.payload = Empty => Listed = own)
        /\ (last.op = "tags.list" /\ NonStaff(last.user)) =>
              LET own == {t \in DOMAIN Tag : Tag[t].user = last.user}
              IN  Listed \subseteq own /\ (last.payload = Empty => Listed = own)
        /\ (last.op = "claims.list" /\ NonStaff(last.user)) =>
              Listed = {c \in DOMAIN Claims : Claims[c].user = last.user}
        /\ (last.op = "claims.list" /\ is_staff(last.user)) =>
              Listed = DOMAIN Claims

\* a user's list of items while another user has items too
C14_Witness ==
    /\ last.op = "items.list"
    /\ NonStaff(last.user)
    /\ last.payload = Empty
    /\ last.code = 200
    /\ Listed # {}
    /\ \E k \in DOMAIN Item : Item[k].user # last.user

\* C15: a request without valid authentication on /items/, /tags/ or
\* /claims/ is answered 401 and leaves the items, tags and claims unchanged.
C15_Unauthenticated ==
    (Observed /\ last.user = Anonymous) =>
        /\ last.code = 401
        /\ Item = last.Item
        /\ Tag = last.Tag
        /\ Claims = last.Claims

\* a DELETE without a token on a stored claim
C15_Witness ==
    /\ last.op = "claims.destroy"
    /\ last.user = Anonymous
    /\ OnStoredClaim
    /\ last.code = 401
    /\ last.id \in DOMAIN Claims

\* the enumerated values of an item's status
ItemStatuses == {"lost", "found"}

\* C16: the status of every stored item is 'lost' or 'found', and a create
\* or update request on an item that supplies another status value is
\* rejected and changes nothing.
C16_ItemStatusEnumerated ==
    /\ \A k \in DOMAIN Item : Item[k].status \in ItemStatuses
    /\ ( /\ last.op \in {"items.create", "items.update", "items.partial_update"}
         /\ Has(last.payload, "status")
         /\ last.payload.status \notin ItemStatuses )
       => (last.code \in {400, 401, 404} /\ Item = last.Item)

\* C18: an item created through POST /items/ is owned by the requester, and
\* no PUT or PATCH on an item changes the owner of any item, whatever user
\* its payload names.
C18_ItemOwner ==
    /\ last.op = "items.create" =>
          \A k \in (DOMAIN Item) \ (DOMAIN last.Item) : Item[k].user = last.user
    /\ last.op \in {"items.update", "items.partial_update"} =>
          /\ DOMAIN Item = DOMAIN last.Item
          /\ \A k \in DOMAIN Item : Item[k].user = last.Item[k].user

\* an owner's update naming another user, which is carried out
C18_Witness ==
    /\ last.op \in {"items.update", "items.partial_update"}
    /\ last.code = 200
    /\ Has(last.payload, "user")
    /\ last.payload.user # last.user
    /\ Item[last.id].user = last.user
    /\ Item[last.id] # last.Item[last.id]

\* ------------------------------------------------------------------------
\* The matcher on its own: any claim description and any short sequence of
\* items, then one call
\* ------------------------------------------------------------------------

Alphabet == {"a", "A"}

\* descriptions long enough to reach the ratios 0.6, 0.8 and 1.0
Samples ==
    { <<"a", "b", "c", "d", "e">>, <<"A", "B", "C", "D", "E">>,
      <<"a", "b", "c", "x", "y">>, <<"a", "b", "c", "d", "x">> }

StringsUpTo(n) == UNION {[1..k -> Alphabet] : k \in 0..n}

Descriptions == StringsUpTo(MaxLen) \cup Samples

\* the items of a sequence of descriptions, numbered in order
ItemsOf(ds) == [k \in 1..Len(ds) |-> [id |-> k, description |-> ds[k]]]

ItemSeqs == {ItemsOf(ds) : ds \in UNION {[1..n -> Descriptions] : n \in 0..MaxScan}}

MatchInit ==
    /\ m_claim \in {[description |-> d] : d \in Descriptions}
    /\ m_items \in ItemSeqs
    /\ m_result = None
    /\ m_pc = "ready"
    /\ DbInit

Match ==
    /\ m_pc = "ready"
    /\ m_result' = match_claim_to_item(m_claim, m_items)
    /\ m_pc' = "done"
    /\ UNCHANGED <<m_claim, m_items>>
    /\ UNCHANGED <<dbvars, last, inflight>>

MatchNext == Match

SpecMatch == MatchInit /\ [][MatchNext]_vars

\* the ratio of the claim to the item at position k of the sequence
R(k) == itemRatio(m_claim, m_items[k])

Positions == 1..Len(m_items)

\* C1: the matcher returns no match or a member of the sequence whose ratio
\* is above 0.6 and at least the ratio of every other member, and it returns
\* a match whenever some member has a ratio above 0.6.
C1_BestAboveThreshold ==
    m_pc = "done" =>
        /\ \/ m_result = None
           \/ \E k \in Positions :
                 /\ m_items[k].id = m_result
                 /\ Gt(R(k), Threshold)
                 /\ \A j \in Positions : Ge(R(k), R(j))
        /\ (\E k \in Positions : Gt(R(k), Threshold)) => m_result # None

\* a match chosen over an earlier item that is itself above the threshold
C1_Witness ==
    /\ m_pc = "done"
    /\ m_result = 2
    /\ Gt(R(1), Threshold)
    /\ Gt(R(2), R(1))

\* C2: of several items sharing the highest ratio (above 0.6) the matcher
\* returns the one that occurs first in the sequence.
C2_FirstOfTies ==
    m_pc = "done" =>
        \A k \in Positions :
            ( /\ Gt(R(k), Threshold)
              /\ \A j \in Positions : Ge(R(k), R(j))
              /\ \A j \in 1..(k - 1) : Gt(R(k), R(j)) )
            => m_result = m_items[k].id

\* two items with the claim's own description: the first is returned
C2_Witness ==
    /\ m_pc = "done"
    /\ Len(m_items) = 2
    /\ m_claim.description # << >>
    /\ m_items[1].description = m_claim.description
    /\ m_items[2].description = m_claim.description
    /\ m_result = 1

\* C3: if every item of the sequence has a ratio of at most 0.6 (an empty
\* sequence and a ratio of exactly 0.6 included) the matcher returns no match.
C3_NoMatchAtOrBelow ==
    m_pc = "done" =>
        ((\A k \in Positions : Ge(Threshold, R(k))) => m_result = None)

\* an item at exactly 0.6 is passed over
C3_Witness ==
    /\ m_pc = "done"
    /\ m_items # << >>
    /\ \E k \in Positions : R(k) = <<6, 10>>
    /\ m_result = None

====
